---- MODULE Spec2Model ----
(***************************************************************************)
(* Model of custom_components/tuya_ble/devices.py: the product database    *)
(* lookup and TuyaBLECoordinator, the per-device connection coordinator    *)
(* with its debounced disconnect.  The Home Assistant primitives the code  *)
(* calls (async_call_later, the cancel callable it returns,                *)
(* DataUpdateCoordinator.async_update_listeners / async_set_updated_data,  *)
(* hass.bus.fire) are modelled by their documented effect.                 *)
(* Also custom_components/tuya_ble/config_flow.py: _try_login and the     *)
(* steps of TuyaBLEConfigFlow, with the cloud manager's replies and the    *)
(* Bluetooth discoveries as inputs.                                        *)
(***************************************************************************)
EXTENDS Naturals, Integers, Sequences, FiniteSets, TLC

(* ------------------------------ bounds -------------------------------- *)

\* Number of async_call_later tasks the scheduler ever holds.
MaxTimers == 2

\* Last instant of the modelled clock.
MaxTime == 3

\* Longest data-point batch one update callback delivers.
MaxBatch == 2

\* Most steps the flow manager runs on one config flow.
MaxSteps == 4

\* SET_DISCONNECTED_DELAY (imported from .const), counted in ticks of the
\* modelled clock.
SET_DISCONNECTED_DELAY == 2

(* --------------------------- Python values ---------------------------- *)

\* Python's None.  Optional values are records, so None compares with them.
None == [none |-> TRUE]

\* Truthiness of an optional dataclass instance (`if x`, `if not x`).
Truthy(x) == x # None

(* ------------------------ product database ---------------------------- *)

TuyaBLEFingerbotInfo(switch, mode, up_position, down_position, hold_time, reverse_positions, manual_control, program) ==
    [switch |-> switch, mode |-> mode, up_position |-> up_position,
     down_position |-> down_position, hold_time |-> hold_time,
     reverse_positions |-> reverse_positions,
     manual_control |-> manual_control, program |-> program]

TuyaBLEProductInfo(name, fingerbot) ==
    [name |-> name, fingerbot |-> fingerbot]

TuyaBLECategoryInfo(products, info) ==
    [products |-> products, info |-> info]

\* dict.fromkeys(keys, value)
FromKeys(keys, value) == [k \in keys |-> value]

\* dict.get(key): the value, or None when the key is absent.
DictGet(dict, key) == IF key \in DOMAIN dict THEN dict[key] ELSE None

devices_database ==
    ( "co2bj" :> TuyaBLECategoryInfo(
          "59s19z5m" :> TuyaBLEProductInfo("CO2 Detector", None), None) )
 @@ ( "ms" :> TuyaBLECategoryInfo(
          FromKeys({"ludzroix", "isk2p555", "isljqiq1"},
                   TuyaBLEProductInfo("Smart Lock", None)), None) )
 @@ ( "szjqr" :> TuyaBLECategoryInfo(
          ( "3yqdo5yt" :> TuyaBLEProductInfo("CUBETOUCH 1s",
                TuyaBLEFingerbotInfo(1, 2, 5, 6, 3, 4, 0, 0)) )
       @@ ( "xhf790if" :> TuyaBLEProductInfo("CubeTouch II",
                TuyaBLEFingerbotInfo(1, 2, 5, 6, 3, 4, 0, 0)) )
       @@ FromKeys({"blliqpsj", "ndvkgsrm", "yiihr7zh", "neq16kgd"},
                TuyaBLEProductInfo("Fingerbot Plus",
                    TuyaBLEFingerbotInfo(2, 8, 15, 9, 10, 11, 17, 121)))
       @@ FromKeys({"ltak7e1p", "y6kttvd6", "yrnk7mnn", "nvr2rocq",
                    "bnt7wajf", "rvdceqjh", "5xhbk964"},
                TuyaBLEProductInfo("Fingerbot",
                    TuyaBLEFingerbotInfo(2, 8, 15, 9, 10, 11, 0, 121))),
          None) )
 @@ ( "wk" :> TuyaBLECategoryInfo(
          FromKeys({"drlajpqc", "nhj2j7su"},
                   TuyaBLEProductInfo("Thermostatic Radiator Valve", None)),
          None) )
 @@ ( "wsdcg" :> TuyaBLECategoryInfo(
          "ojzlzzsw" :> TuyaBLEProductInfo("Soil moisture sensor", None),
          None) )
 @@ ( "znhsb" :> TuyaBLECategoryInfo(
          "cdlandip" :> TuyaBLEProductInfo("Smart water bottle", None),
          None) )
 @@ ( "ggq" :> TuyaBLECategoryInfo(
          "6pahkcau" :> TuyaBLEProductInfo("Irrigation computer", None),
          None) )

\* Variant: the product is looked up in every category, not only in the
\* one asked for.
get_product_info_by_ids_any_category(category, product_id) ==
    LET category_info == DictGet(devices_database, category)
        having == { c \in DOMAIN devices_database :
                       product_id \in DOMAIN devices_database[c].products }
    IN  IF ~Truthy(category_info) THEN None
        ELSE IF having # {}
             THEN devices_database[CHOOSE c \in having : TRUE].products[product_id]
             ELSE category_info.info

get_product_info_by_ids(category, product_id) ==
    LET category_info == DictGet(devices_database, category) IN
    IF ~Truthy(category_info) THEN None
    ELSE LET product_info == DictGet(category_info.products, product_id) IN
         IF product_info # None THEN product_info
         ELSE category_info.info

get_device_product_info(device) ==
    get_product_info_by_ids(device.category, device.product_id)

(* ------------------------------ devices ------------------------------- *)

\* The TuyaBLEDevice objects a coordinator can be constructed for: a
\* Fingerbot Plus (manual control data point 17), a Fingerbot
\* (manual_control left at 0), a product without fingerbot info, and a
\* product of an unknown category.
TuyaBLEDevice(address, device_id, category, product_id) ==
    [address |-> address, device_id |-> device_id,
     category |-> category, product_id |-> product_id]

Devices ==
    << TuyaBLEDevice("DC:23:4D:00:00:01", "dev-plus", "szjqr", "blliqpsj"),
       TuyaBLEDevice("DC:23:4D:00:00:02", "dev-bot", "szjqr", "ltak7e1p"),
       TuyaBLEDevice("DC:23:4D:00:00:03", "dev-co2", "co2bj", "59s19z5m"),
       TuyaBLEDevice("DC:23:4D:00:00:04", "dev-odd", "qqqq", "59s19z5m") >>

DeviceKeys == DOMAIN Devices

\* The records a batch may carry (the value of a data point is never
\* read): the Fingerbot switch (id 2) changed by the device, the same
\* data point changed by a command, and another data point changed by
\* the device.
TuyaBLEDataPoint ==
    { [id |-> 2, changed_by_device |-> TRUE],
      [id |-> 2, changed_by_device |-> FALSE],
      [id |-> 1, changed_by_device |-> TRUE] }

RECURSIVE SeqsUpTo(_, _)
SeqsUpTo(S, n) ==
    IF n = 0 THEN { <<>> }
    ELSE LET shorter == SeqsUpTo(S, n - 1) IN
         shorter \cup { Append(s, x) : s \in { t \in shorter : Len(t) = n - 1 }, x \in S }

Batches == SeqsUpTo(TuyaBLEDataPoint, MaxBatch)

(* ------------------------------- state -------------------------------- *)

VARIABLES
    coordinator,   \* device key -> the TuyaBLECoordinator built for it
    timers,        \* the event loop's async_call_later tasks, by handle
    now,           \* the event loop's clock
    last,          \* history: the callback that ran last, and what it did
    prev,          \* history: the callback that ran before it
    hist,          \* history: per coordinator, signals since the last fire
    connectSeen,   \* history: tasks that were pending when a connect ran
    registered,    \* device keys whose device is set up with the platform
    lookup,        \* a call of get_product_info_by_ids and what it returned
    login,         \* a call of _try_login, the replies it got and what it returned
    flow           \* a TuyaBLEConfigFlow, its last result and what it did so far

vars == << coordinator, timers, now, last, prev, hist, connectSeen, registered, lookup, login, flow >>

(* ----------------------- event loop primitives ------------------------ *)

\* The handles of the tasks of `owner` that are scheduled and have neither
\* fired nor been cancelled.
Pending(tm, owner) ==
    { h \in DOMAIN tm : tm[h].owner = owner /\ tm[h].state = "pending" }

\* async_call_later(hass, delay, action): a new one-shot task.
async_call_later(tm, owner, t, delay) ==
    Append(tm, [owner |-> owner, state |-> "pending", deadline |-> t + delay])

\* Variant: cancelling one task cancels every task still scheduled.
CallUnsub_every(tm, unsub) ==
    [h \in DOMAIN tm |->
        IF tm[h].state = "pending" THEN [tm[h] EXCEPT !.state = "cancelled"]
        ELSE tm[h]]

\* Calling the CALLBACK_TYPE that async_call_later returned: cancels the
\* task if it is still scheduled, and does nothing otherwise.
CallUnsub(tm, unsub) ==
    IF tm[unsub.handle].state = "pending"
    THEN [tm EXCEPT ![unsub.handle].state = "cancelled"]
    ELSE tm

\* DataUpdateCoordinator.async_update_listeners(): one broadcast to the
\* registered listeners.
async_update_listeners == 1

\* DataUpdateCoordinator.async_set_updated_data(None): stores the data and
\* calls async_update_listeners().
async_set_updated_data == async_update_listeners

(* --------------------------- TuyaBLECoordinator ----------------------- *)

\* Variant: a new coordinator reports the device as connected.
__init__connected == [_disconnected |-> FALSE, _unsub_disconnect |-> None]

__init__ == [_disconnected |-> TRUE, _unsub_disconnect |-> None]

connected(self) == ~self._disconnected

\* A TuyaBLEEntity of the coordinator: what its available property reads.
TuyaBLEEntity(coordinator_) == [_coordinator |-> coordinator_]

\* TuyaBLEEntity.available
available(self) == connected(self._coordinator)

\* Variant: the flag is cleared without telling the listeners.
_async_handle_connect_silent(self, tm) ==
    LET tm1 == IF self._unsub_disconnect # None
               THEN CallUnsub(tm, self._unsub_disconnect)
               ELSE tm
    IN  [self |-> [self EXCEPT !._disconnected = FALSE],
         timers |-> tm1, listeners |-> 0]

\* Variant: the pending task is left scheduled.
_async_handle_connect_keeps_task(self, tm) ==
    IF self._disconnected
    THEN [self |-> [self EXCEPT !._disconnected = FALSE],
          timers |-> tm, listeners |-> async_update_listeners]
    ELSE [self |-> self, timers |-> tm, listeners |-> 0]

\* Variant: listeners are told on every call, connected already or not.
_async_handle_connect_always_tells(self, tm) ==
    LET tm1 == IF self._unsub_disconnect # None
               THEN CallUnsub(tm, self._unsub_disconnect)
               ELSE tm
    IN  [self |-> [self EXCEPT !._disconnected = FALSE],
         timers |-> tm1, listeners |-> async_update_listeners]

\* Variant: calling the stored callable raises when its task is no longer
\* scheduled.
_async_handle_connect_stale_raises(self, tm) ==
    IF self._unsub_disconnect # None
       /\ tm[self._unsub_disconnect.handle].state # "pending"
    THEN [self |-> self, timers |-> tm, listeners |-> 0, raised |-> TRUE]
    ELSE LET tm1 == IF self._unsub_disconnect # None
                    THEN CallUnsub(tm, self._unsub_disconnect)
                    ELSE tm
         IN  IF self._disconnected
             THEN [self |-> [self EXCEPT !._disconnected = FALSE],
                   timers |-> tm1, listeners |-> async_update_listeners]
             ELSE [self |-> self, timers |-> tm1, listeners |-> 0]

_async_handle_connect(self, tm) ==
    LET tm1 == IF self._unsub_disconnect # None
               THEN CallUnsub(tm, self._unsub_disconnect)
               ELSE tm
    IN  IF self._disconnected
        THEN [self |-> [self EXCEPT !._disconnected = FALSE],
              timers |-> tm1, listeners |-> async_update_listeners]
        ELSE [self |-> self, timers |-> tm1, listeners |-> 0]

\* Variant: one event per batch at most (the loop stops at the first match).
ButtonEventsOnce(device, info, updates) ==
    IF \E i \in DOMAIN updates :
           updates[i].id = info.fingerbot.switch /\ updates[i].changed_by_device
    THEN << [address |-> device.address, device_id |-> device.device_id] >>
    ELSE << >>

\* hass.bus.fire(FINGERBOT_BUTTON_EVENT, {...}) for each record of the
\* batch, in order, that the loop's condition selects.
RECURSIVE ButtonEvents(_, _, _)
ButtonEvents(device, info, updates) ==
    IF updates = << >> THEN << >>
    ELSE LET update == Head(updates)
             fired == IF update.id = info.fingerbot.switch /\ update.changed_by_device
                      THEN << [address |-> device.address,
                               device_id |-> device.device_id] >>
                      ELSE << >>
         IN  fired \o ButtonEvents(device, info, Tail(updates))

\* Variant: the data callback does not go through _async_handle_connect.
_async_handle_update_no_connect(self, tm, device, updates) ==
    LET info == get_device_product_info(device)
    IN  [self |-> self, timers |-> tm,
         listeners |-> async_set_updated_data,
         events |-> IF Truthy(info) /\ Truthy(info.fingerbot)
                       /\ info.fingerbot.manual_control # 0
                    THEN ButtonEvents(device, info, updates)
                    ELSE << >>]

\* Variant: every button event is also broadcast to the listeners.
_async_handle_update_tells_per_event(self, tm, device, updates) ==
    LET c == _async_handle_connect(self, tm)
        info == get_device_product_info(device)
        events == IF Truthy(info) /\ Truthy(info.fingerbot)
                     /\ info.fingerbot.manual_control # 0
                  THEN ButtonEvents(device, info, updates)
                  ELSE << >>
    IN  [self |-> c.self, timers |-> c.timers,
         listeners |-> c.listeners + async_set_updated_data + Len(events),
         events |-> events]

\* Variant: the manual control indicator is not looked at.
_async_handle_update_any_fingerbot(self, tm, device, updates) ==
    LET c == _async_handle_connect(self, tm)
        info == get_device_product_info(device)
    IN  [self |-> c.self, timers |-> c.timers,
         listeners |-> c.listeners + async_set_updated_data,
         events |-> IF Truthy(info) /\ Truthy(info.fingerbot)
                    THEN ButtonEvents(device, info, updates)
                    ELSE << >>]

_async_handle_update(self, tm, device, updates) ==
    LET c == _async_handle_connect(self, tm)
        info == get_device_product_info(device)
    IN  [self |-> c.self, timers |-> c.timers,
         listeners |-> c.listeners + async_set_updated_data,
         events |-> IF Truthy(info) /\ Truthy(info.fingerbot)
                       /\ info.fingerbot.manual_control # 0
                    THEN ButtonEvents(device, info, updates)
                    ELSE << >>]

\* Variant: the timer reference is cleared but the flag is not set.
_set_disconnected_keeps_flag(self) ==
    [self |-> [self EXCEPT !._unsub_disconnect = None],
     listeners |-> async_update_listeners]

\* Variant: listeners are told only when the flag changes.
_set_disconnected_tells_on_change(self) ==
    [self |-> [self EXCEPT !._disconnected = TRUE, !._unsub_disconnect = None],
     listeners |-> IF self._disconnected THEN 0 ELSE async_update_listeners]

\* Variant: the flag is set but the timer reference is kept.
_set_disconnected_keeps_reference(self) ==
    [self |-> [self EXCEPT !._disconnected = TRUE],
     listeners |-> async_update_listeners]

_set_disconnected(self) ==
    [self |-> [self EXCEPT !._disconnected = TRUE, !._unsub_disconnect = None],
     listeners |-> async_update_listeners]

\* Variant: a task is scheduled whether or not one is stored already.
_async_handle_disconnect_stacks(self, tm, owner, t) ==
    [self |-> [self EXCEPT !._unsub_disconnect = [handle |-> Len(tm) + 1]],
     timers |-> async_call_later(tm, owner, t, SET_DISCONNECTED_DELAY)]

\* Variant: a disconnect signal restarts the delay of the stored task.
_async_handle_disconnect_restarts(self, tm, owner, t) ==
    IF self._unsub_disconnect = None
    THEN [self |-> [self EXCEPT !._unsub_disconnect = [handle |-> Len(tm) + 1]],
          timers |-> async_call_later(tm, owner, t, SET_DISCONNECTED_DELAY)]
    ELSE [self |-> self,
          timers |-> [tm EXCEPT ![self._unsub_disconnect.handle].deadline =
                                    t + SET_DISCONNECTED_DELAY]]

_async_handle_disconnect(self, tm, owner, t) ==
    IF self._unsub_disconnect = None
    THEN [self |-> [self EXCEPT !._unsub_disconnect = [handle |-> Len(tm) + 1]],
          timers |-> async_call_later(tm, owner, t, SET_DISCONNECTED_DELAY)]
    ELSE [self |-> self, timers |-> tm]

(* ------------------------------ history ------------------------------- *)

\* How far the callbacks that ran last follow the pattern fire, connected,
\* disconnected on one coordinator: 1 after the fire, 2 after the
\* connected callback that follows it, 3 after the disconnected callback
\* that follows that, 0 otherwise.
AfterFire(op, d) ==
    CASE op = "fire" -> 1
      [] op = "connect" /\ last.dev = d /\ last.afterFire = 1 -> 2
      [] op = "disconnect" /\ last.dev = d /\ last.afterFire = 2 -> 3
      [] OTHER -> 0

\* What the history remembers of the callback that ran last: which one,
\* on which coordinator, whether that coordinator was disconnected before
\* it, and what it sent (listener broadcasts, bus events) for which batch.
Ran(op, d, listeners, events, updates) ==
    [op |-> op, dev |-> d,
     wasDisconnected |-> coordinator[d]._disconnected,
     listeners |-> listeners, events |-> events, updates |-> updates,
     afterFire |-> AfterFire(op, d)]

\* What the history remembers of the callback before the last one: enough
\* to tell a connected callback apart, and what it found and sent.
Before ==
    IF last.op = "connect"
    THEN [op |-> "connect", dev |-> last.dev, listeners |-> last.listeners,
          wasDisconnected |-> last.wasDisconnected]
    ELSE [op |-> "other", dev |-> last.dev, listeners |-> 0,
          wasDisconnected |-> FALSE]

\* The history right after the coordinator of device d was constructed.
Constructed(d) ==
    [op |-> "init", dev |-> d, wasDisconnected |-> TRUE,
     listeners |-> 0, events |-> << >>, updates |-> << >>, afterFire |-> 0]

\* No call of get_product_info_by_ids is being followed.
NoLookup == [phase |-> "none"]

\* No call of _try_login is being followed.
NoLogin == [phase |-> "none"]

\* No config flow has been started.
NoFlow == [phase |-> "none"]

NoHistory ==
    [discAt |-> {}, fireListeners |-> 0, connectSinceFire |-> FALSE, stacked |-> {}]

(* ------------------------------ actions ------------------------------- *)

\* The state after TuyaBLECoordinator(hass, device) for one device.
Init ==
    /\ \E d \in DeviceKeys :
          /\ coordinator = (d :> __init__)
          /\ hist = (d :> NoHistory)
          /\ registered = {d}
          /\ last = Constructed(d)
          /\ prev = [op |-> "other", dev |-> d, listeners |-> 0,
                     wasDisconnected |-> FALSE]
    /\ timers = << >>
    /\ now = 0
    /\ connectSeen = {}
    /\ lookup = NoLookup
    /\ login = NoLogin
    /\ flow = NoFlow

\* A signal that the device is alive reached coordinator d.
Alive(d) ==
    /\ hist' = [hist EXCEPT ![d] = [discAt |-> {}, fireListeners |-> 0,
                                     connectSinceFire |-> TRUE, stacked |-> {}]]
    /\ connectSeen' = connectSeen \cup Pending(timers, d)

\* The transport calls the registered connected callback.
HandleConnected(d) ==
    LET e == _async_handle_connect(coordinator[d], timers) IN
    /\ d \in registered
    /\ coordinator' = [coordinator EXCEPT ![d] = e.self]
    /\ timers' = e.timers
    /\ last' = Ran("connect", d, e.listeners, << >>, << >>)
    /\ prev' = Before
    /\ Alive(d)
    /\ UNCHANGED << now, registered, lookup, login, flow >>

\* The transport calls the registered data callback with a batch.
HandleDataUpdate(d, updates) ==
    LET e == _async_handle_update(coordinator[d], timers, Devices[d], updates) IN
    /\ d \in registered
    /\ coordinator' = [coordinator EXCEPT ![d] = e.self]
    /\ timers' = e.timers
    /\ last' = Ran("update", d, e.listeners, e.events, updates)
    /\ prev' = Before
    /\ Alive(d)
    /\ UNCHANGED << now, registered, lookup, login, flow >>

\* The transport calls the registered disconnected callback.
HandleDisconnected(d) ==
    LET e == _async_handle_disconnect(coordinator[d], timers, d, now) IN
    /\ d \in registered
    /\ Len(e.timers) <= MaxTimers
    /\ coordinator' = [coordinator EXCEPT ![d] = e.self]
    /\ timers' = e.timers
    /\ last' = Ran("disconnect", d, 0, << >>, << >>)
    /\ prev' = Before
    /\ hist' = [hist EXCEPT ![d].discAt = {now},
                            ![d].fireListeners = 0,
                            ![d].stacked =
                                { [handle |-> h, deadline |-> timers[h].deadline] :
                                      h \in Pending(timers, d) }]
    /\ UNCHANGED << now, connectSeen, registered, lookup, login, flow >>

\* The event loop runs a scheduled task whose time has come: the callback
\* given to async_call_later, _set_disconnected.
DebounceFire(h) ==
    /\ timers[h].state = "pending"
    /\ timers[h].deadline <= now
    /\ LET d == timers[h].owner
           e == _set_disconnected(coordinator[d])
       IN  /\ coordinator' = [coordinator EXCEPT ![d] = e.self]
           /\ timers' = [timers EXCEPT ![h].state = "fired"]
           /\ last' = Ran("fire", d, e.listeners, << >>, << >>)
           /\ prev' = Before
           /\ hist' = [hist EXCEPT ![d].fireListeners = @ + e.listeners,
                                   ![d].connectSinceFire = FALSE]
    /\ UNCHANGED << now, connectSeen, registered, lookup, login, flow >>

\* Time passes.  The event loop runs every due task before a later
\* instant is reached.
Tick ==
    /\ now < MaxTime
    /\ \A h \in DOMAIN timers :
          timers[h].state = "pending" => timers[h].deadline > now
    /\ now' = now + 1
    /\ UNCHANGED << coordinator, timers, last, prev, hist, connectSeen, registered, lookup, login, flow >>

\* The device is removed from the platform.  TuyaBLECoordinator defines
\* nothing to run at that point: no method of the class is called, its
\* fields and the task it scheduled stay as they are, and the transport
\* delivers no further callbacks.
Remove(d) ==
    /\ d \in registered
    /\ registered' = registered \ {d}
    /\ last' = Ran("remove", d, 0, << >>, << >>)
    /\ prev' = Before
    /\ UNCHANGED << coordinator, timers, now, hist, connectSeen, lookup, login, flow >>

Next ==
    \/ \E d \in DOMAIN coordinator : HandleConnected(d)
    \/ \E d \in DOMAIN coordinator : \E updates \in Batches : HandleDataUpdate(d, updates)
    \/ \E d \in DOMAIN coordinator : HandleDisconnected(d)
    \/ \E h \in DOMAIN timers : DebounceFire(h)
    \/ \E d \in DOMAIN coordinator : Remove(d)
    \/ Tick

Spec == Init /\ [][Next]_vars

\* Two devices set up side by side, each with its own coordinator: a
\* Fingerbot Plus and a Fingerbot.
TwoDevices == {1, 2}

\* The state after TuyaBLECoordinator(hass, device) for each of them.
InitTwo ==
    /\ coordinator = [d \in TwoDevices |-> __init__]
    /\ hist = [d \in TwoDevices |-> NoHistory]
    /\ registered = TwoDevices
    /\ \E d \in TwoDevices :
          /\ last = Constructed(d)
          /\ prev = [op |-> "other", dev |-> d, listeners |-> 0,
                     wasDisconnected |-> FALSE]
    /\ timers = << >>
    /\ now = 0
    /\ connectSeen = {}
    /\ lookup = NoLookup
    /\ login = NoLogin
    /\ flow = NoFlow

\* The batches delivered while two coordinators run side by side.
BatchesTwo == {<< >>, << [id |-> 2, changed_by_device |-> TRUE] >>}

\* The callbacks of both coordinators and their tasks, interleaved.
NextTwo ==
    \/ \E d \in DOMAIN coordinator : HandleConnected(d)
    \/ \E d \in DOMAIN coordinator : \E updates \in BatchesTwo : HandleDataUpdate(d, updates)
    \/ \E d \in DOMAIN coordinator : HandleDisconnected(d)
    \/ \E h \in DOMAIN timers : DebounceFire(h)
    \/ Tick

SpecTwo == InitTwo /\ [][NextTwo]_vars

(* ------------------------- product lookup ----------------------------- *)

\* The category arguments: every category of the database and one that is
\* not in it.
Categories == DOMAIN devices_database \cup {"qqqq"}

\* The product_id arguments: every product id of the database, whatever
\* its category, and one that is not in it.
ProductIds ==
    UNION { DOMAIN devices_database[c].products : c \in DOMAIN devices_database }
        \cup {"00000000"}

\* A caller is about to call get_product_info_by_ids(category, product_id);
\* no coordinator exists.
InitLookup ==
    /\ \E category \in Categories, product_id \in ProductIds :
          lookup = [phase |-> "call", category |-> category,
                    product_id |-> product_id]
    /\ coordinator = << >>
    /\ hist = << >>
    /\ registered = {}
    /\ last = Constructed(1)
    /\ prev = [op |-> "other", dev |-> 1, listeners |-> 0,
               wasDisconnected |-> FALSE]
    /\ timers = << >>
    /\ now = 0
    /\ connectSeen = {}
    /\ login = NoLogin
    /\ flow = NoFlow

\* The call returns.
Lookup ==
    /\ lookup.phase = "call"
    /\ lookup' = [phase |-> "done", category |-> lookup.category,
                  product_id |-> lookup.product_id,
                  result |-> get_product_info_by_ids(lookup.category,
                                                     lookup.product_id)]
    /\ UNCHANGED << coordinator, timers, now, last, prev, hist, connectSeen,
                    registered, login, flow >>

NextLookup == Lookup

SpecLookup == InitLookup /\ [][NextLookup]_vars

(* ----------------------------- _try_login ----------------------------- *)

\* Keys of the user input, of the login data and of the cloud's reply
\* (homeassistant.const and const.py).
CONF_ADDRESS == "address"
CONF_COUNTRY_CODE == "country_code"
CONF_PASSWORD == "password"
CONF_USERNAME == "username"
CONF_ACCESS_ID == "access_id"
CONF_ACCESS_SECRET == "access_secret"
CONF_AUTH_TYPE == "auth_type"
CONF_ENDPOINT == "endpoint"
CONF_APP_TYPE == "tuya_app_type"
SMARTLIFE_APP == "smartlife"
TUYA_SMART_APP == "tuyaSmart"
TUYA_RESPONSE_CODE == "code"
TUYA_RESPONSE_MSG == "msg"
TUYA_RESPONSE_SUCCESS == "success"

\* tuya_iot.AuthType, by member: the member's value.
AuthType == [SMART_HOME |-> 0, CUSTOM |-> 1]

\* TUYA_COUNTRIES, abridged to two of its entries.
TUYA_COUNTRIES ==
    << [name |-> "Poland", country_code |-> "48",
        endpoint |-> "https://openapi.tuyaeu.com"],
       [name |-> "United States", country_code |-> "1",
        endpoint |-> "https://openapi.tuyaus.com"] >>

\* dict.get(key, default)
DictGetOr(dict, key, default) ==
    IF key \in DOMAIN dict THEN dict[key] ELSE default

\* The truth value of a dict or None: false for None and for {}.
TruthyDict(dict) == dict # None /\ DOMAIN dict # {}

\* next((country for country in TUYA_COUNTRIES if country.name == name), None)
NextCountry(name) ==
    LET found == { i \in DOMAIN TUYA_COUNTRIES : TUYA_COUNTRIES[i].name = name }
    IN  IF found = {} THEN None
        ELSE TUYA_COUNTRIES[CHOOSE i \in found : \A j \in found : i <= j]

\* The app types the loop of _try_login goes through.
AppTypes == << TUYA_SMART_APP, SMARTLIFE_APP, "" >>

\* Variant: the loop does not stop at a successful reply; it goes through
\* every app type and returns the data if the last reply was a success.
RECURSIVE LoginLoop_exhausts(_, _, _, _)
LoginLoop_exhausts(data, replies, i, calls) ==
    IF i > Len(AppTypes)
    THEN [data |-> IF DictGetOr(replies[Len(AppTypes)], TUYA_RESPONSE_SUCCESS, FALSE)
                   THEN data ELSE None,
          calls |-> calls, response |-> replies[Len(AppTypes)]]
    ELSE LET app_type == AppTypes[i]
             data1 == (CONF_APP_TYPE :> (IF app_type # "" THEN app_type
                                         ELSE SMARTLIFE_APP))
                      @@ (CONF_AUTH_TYPE :> (IF app_type # "" THEN AuthType.SMART_HOME
                                             ELSE AuthType.CUSTOM))
                      @@ data
         IN  LoginLoop_exhausts(data1, replies, i + 1, Append(calls, data1))

\* The for loop of _try_login from its i-th iteration on.  replies[k] is
\* what manager._login returns to the k-th call; calls are the data
\* manager._login was called with so far.  The result carries the data
\* returned (None when the loop ran out), the calls made and the last reply.
RECURSIVE LoginLoop(_, _, _, _)
LoginLoop(data, replies, i, calls) ==
    IF i > Len(AppTypes)
    THEN [data |-> None, calls |-> calls, response |-> replies[Len(AppTypes)]]
    ELSE LET app_type == AppTypes[i]
             data1 == (CONF_APP_TYPE :> (IF app_type # "" THEN app_type
                                         ELSE SMARTLIFE_APP))
                      @@ (CONF_AUTH_TYPE :> (IF app_type # "" THEN AuthType.SMART_HOME
                                             ELSE AuthType.CUSTOM))
                      @@ data
             response == replies[i]
         IN  IF DictGetOr(response, TUYA_RESPONSE_SUCCESS, FALSE)
             THEN [data |-> data1, calls |-> Append(calls, data1),
                   response |-> response]
             ELSE LoginLoop(data1, replies, i + 1, Append(calls, data1))

\* Variant: an unknown country name falls back to the first country.
_try_login_default_country(replies, user_input, errors, placeholders) ==
    LET named == NextCountry(user_input[CONF_COUNTRY_CODE])
        country == IF named = None THEN TUYA_COUNTRIES[1] ELSE named
        data == (CONF_ENDPOINT :> country.endpoint)
                @@ (CONF_AUTH_TYPE :> AuthType.CUSTOM)
                @@ (CONF_ACCESS_ID :> DictGetOr(user_input, CONF_ACCESS_ID, ""))
                @@ (CONF_ACCESS_SECRET :> DictGetOr(user_input, CONF_ACCESS_SECRET, ""))
                @@ (CONF_USERNAME :> DictGetOr(user_input, CONF_USERNAME, ""))
                @@ (CONF_PASSWORD :> DictGetOr(user_input, CONF_PASSWORD, ""))
                @@ (CONF_COUNTRY_CODE :> country.country_code)
        loop == LoginLoop(data, replies, 1, << >>)
    IN  IF loop.data # None
        THEN [data |-> loop.data, errors |-> errors,
              placeholders |-> placeholders, calls |-> loop.calls]
        ELSE [data |-> None,
              errors |-> ("base" :> "login_error") @@ errors,
              placeholders |-> placeholders, calls |-> loop.calls]

\* _try_login(manager, user_input, errors, placeholders), with the replies
\* of manager._login by call number in place of the manager.  The result
\* carries the value returned, the two dicts the caller passed in as the
\* function leaves them, and the calls made to manager._login.
_try_login(replies, user_input, errors, placeholders) ==
    LET country == NextCountry(user_input[CONF_COUNTRY_CODE]) IN
    IF country = None
    THEN [data |-> None,
          errors |-> ("base" :> "invalid_country") @@ errors,
          placeholders |-> placeholders, calls |-> << >>]
    ELSE LET data == (CONF_ENDPOINT :> country.endpoint)
                     @@ (CONF_AUTH_TYPE :> AuthType.CUSTOM)
                     @@ (CONF_ACCESS_ID :> DictGetOr(user_input, CONF_ACCESS_ID, ""))
                     @@ (CONF_ACCESS_SECRET :> DictGetOr(user_input, CONF_ACCESS_SECRET, ""))
                     @@ (CONF_USERNAME :> DictGetOr(user_input, CONF_USERNAME, ""))
                     @@ (CONF_PASSWORD :> DictGetOr(user_input, CONF_PASSWORD, ""))
                     @@ (CONF_COUNTRY_CODE :> country.country_code)
             loop == LoginLoop(data, replies, 1, << >>)
         IN  IF loop.data # None
             THEN [data |-> loop.data, errors |-> errors,
                   placeholders |-> placeholders, calls |-> loop.calls]
             ELSE [data |-> None,
                   errors |-> ("base" :> "login_error") @@ errors,
                   placeholders |->
                       IF TruthyDict(loop.response)
                       THEN ("tuya_response_code" :>
                                 DictGet(loop.response, TUYA_RESPONSE_CODE))
                            @@ ("tuya_response_msg" :>
                                 DictGet(loop.response, TUYA_RESPONSE_MSG))
                            @@ placeholders
                       ELSE placeholders,
                   calls |-> loop.calls]

\* What manager._login can return: a success, a failure with its code and
\* message, and an empty reply.
Responses ==
    { (TUYA_RESPONSE_SUCCESS :> TRUE),
      (TUYA_RESPONSE_SUCCESS :> FALSE) @@ (TUYA_RESPONSE_CODE :> 1004)
          @@ (TUYA_RESPONSE_MSG :> "sign invalid"),
      << >> }

\* The replies to the calls of one _try_login, by call number.
Replies == [1..Len(AppTypes) -> Responses]

\* The login forms a user can submit: the name of a known country or an
\* unknown name, with or without the account fields.
LoginInputs ==
    { (CONF_COUNTRY_CODE :> name) @@ account :
        name \in {"Poland", "United States", "Atlantis"},
        account \in { << >>,
                      (CONF_USERNAME :> "user") @@ (CONF_PASSWORD :> "secret")
                          @@ (CONF_ACCESS_ID :> "id")
                          @@ (CONF_ACCESS_SECRET :> "key") } }

\* A caller is about to call _try_login with fresh errors and placeholders
\* dicts, as async_step_login does.
InitLogin ==
    /\ \E user_input \in LoginInputs, replies \in Replies :
          login = [phase |-> "call", user_input |-> user_input,
                   replies |-> replies]
    /\ coordinator = << >>
    /\ hist = << >>
    /\ registered = {}
    /\ last = Constructed(1)
    /\ prev = [op |-> "other", dev |-> 1, listeners |-> 0,
               wasDisconnected |-> FALSE]
    /\ timers = << >>
    /\ now = 0
    /\ connectSeen = {}
    /\ lookup = NoLookup
    /\ flow = NoFlow

\* The call returns.
TryLogin ==
    /\ login.phase = "call"
    /\ login' = [phase |-> "done", user_input |-> login.user_input,
                 replies |-> login.replies,
                 result |-> _try_login(login.replies, login.user_input,
                                       << >>, << >>)]
    /\ UNCHANGED << coordinator, timers, now, last, prev, hist, connectSeen,
                    registered, lookup, flow >>

NextLogin == TryLogin

SpecLogin == InitLogin /\ [][NextLogin]_vars

(* -------------------------- TuyaBLEConfigFlow ------------------------- *)

\* tuya_ble.SERVICE_UUID: the service a Tuya BLE device advertises data for.
SERVICE_UUID == "0000a201-0000-1000-8000-00805f9b34fb"

\* A BluetoothServiceInfoBleak: the address and the advertised services.
BluetoothServiceInfoBleak(address, service_data) ==
    [address |-> address, service_data |-> service_data]

\* A call of manager.get_device_credentials: the address, the keyword
\* arguments passed, and the function that makes the call.
get_device_credentials(address, kwargs, by) ==
    [address |-> address, kwargs |-> kwargs, by |-> by]

\* get_device_readable_name(discovery_info, manager): the credential
\* lookup it makes, with the address only.  The name it builds is shown to
\* the user and is not modelled.
get_device_readable_name(discovery_info, manager) ==
    IF manager # None
    THEN << get_device_credentials(discovery_info.address, << >>,
                                   "get_device_readable_name") >>
    ELSE << >>

\* TuyaBLEConfigFlow.__init__
TuyaBLEConfigFlow ==
    [_discovery_info |-> None, _discovered_devices |-> << >>,
     _data |-> << >>, _manager |-> None, _get_device_info_error |-> FALSE]

\* HASSTuyaBLEDeviceManager(self.hass, self._data)
HASSTuyaBLEDeviceManager == [manager |-> TRUE]

\* self._discovered_devices is a dict keyed by address, in insertion
\* order: a sequence of service infos with distinct addresses.
Addresses(devices) == { devices[i].address : i \in DOMAIN devices }

\* self._discovered_devices.get(address)
DeviceGet(devices, address) ==
    IF address \in Addresses(devices)
    THEN devices[CHOOSE i \in DOMAIN devices : devices[i].address = address]
    ELSE None

\* self._discovered_devices[info.address] = info
DevicePut(devices, info) ==
    IF info.address \in Addresses(devices)
    THEN [i \in DOMAIN devices |->
             IF devices[i].address = info.address THEN info ELSE devices[i]]
    ELSE Append(devices, info)

\* The scan of async_step_device over async_discovered_service_info.
RECURSIVE Scan(_, _, _)
Scan(devices, discoveries, current_addresses) ==
    IF discoveries = << >> THEN devices
    ELSE LET discovery == Head(discoveries) IN
         IF \/ discovery.address \in current_addresses
            \/ discovery.address \in Addresses(devices)
            \/ SERVICE_UUID \notin discovery.service_data
         THEN Scan(devices, Tail(discoveries), current_addresses)
         ELSE Scan(Append(devices, discovery), Tail(discoveries), current_addresses)

\* The credential lookups made for the names of the device form's choices.
RECURSIVE FormNames(_, _)
FormNames(devices, manager) ==
    IF devices = << >> THEN << >>
    ELSE get_device_readable_name(Head(devices), manager)
         \o FormNames(Tail(devices), manager)

\* What a step of the flow hands back: the flow object, the FlowResult
\* (without the form's schema and the entry's title), the calls of
\* manager.get_device_credentials in order, whether _try_login returned
\* data, and after how many of the calls "device_not_registered" was set
\* (0 if it was not).
Handled(self, result, calls, logged_in, failed_after) ==
    [self |-> self, result |-> result, calls |-> calls,
     logged_in |-> logged_in, failed_after |-> failed_after]

\* async_step_device from "Discover devices if not already discovered" on.
DeviceForm(self, errors, calls, failed_after, discoveries, current_ids) ==
    LET devices == IF self._discovery_info # None
                   THEN DevicePut(self._discovered_devices, self._discovery_info)
                   ELSE Scan(self._discovered_devices, discoveries, current_ids)
        self1 == [self EXCEPT !._discovered_devices = devices]
    IN  IF devices = << >>
        THEN Handled(self1, [type |-> "abort", reason |-> "no_unconfigured_devices"],
                     calls, FALSE, failed_after)
        ELSE Handled(self1, [type |-> "form", step_id |-> "device", errors |-> errors],
                     calls \o FormNames(devices, self1._manager), FALSE, failed_after)

\* Variant: a failed credential fetch does not set _get_device_info_error.
async_step_device_keeps_flag(self, user_input, credentials, discoveries, current_ids) ==
    IF TruthyDict(user_input)
    THEN LET address == DictGet(user_input, CONF_ADDRESS)
             discovery_info == DeviceGet(self._discovered_devices, address)
         IN  IF discovery_info = None
             THEN Handled(self, [type |-> "form", step_id |-> "device",
                                 errors |-> [base |-> "invalid_device"]],
                          FormNames(self._discovered_devices, self._manager), FALSE, 0)
             ELSE LET named == get_device_readable_name(discovery_info, self._manager) IN
                  IF discovery_info.address \in current_ids
                  THEN Handled(self, [type |-> "abort", reason |-> "already_configured"],
                               named, FALSE, 0)
                  ELSE LET calls == Append(named,
                                        get_device_credentials(discovery_info.address,
                                            [force_update |-> self._get_device_info_error,
                                             save_data |-> TRUE],
                                            "async_step_device"))
                           self1 == [self EXCEPT !._data =
                                        (CONF_ADDRESS :> discovery_info.address) @@ @]
                       IN  IF credentials = None
                           THEN DeviceForm(self1, [base |-> "device_not_registered"],
                                           calls, Len(calls), discoveries, current_ids)
                           ELSE Handled(self1,
                                        [type |-> "create_entry",
                                         data |-> (CONF_ADDRESS :> discovery_info.address),
                                         options |-> self1._data],
                                        calls, FALSE, 0)
    ELSE DeviceForm(self, << >>, << >>, 0, discoveries, current_ids)

\* TuyaBLEConfigFlow.async_step_device(user_input).  credentials is what
\* the manager returns to the flow's own credential fetch, discoveries
\* what async_discovered_service_info yields, current_ids the addresses
\* already configured.
async_step_device(self, user_input, credentials, discoveries, current_ids) ==
    IF TruthyDict(user_input)
    THEN LET address == DictGet(user_input, CONF_ADDRESS)
             discovery_info == DeviceGet(self._discovered_devices, address)
         IN  IF discovery_info = None
             THEN Handled(self, [type |-> "form", step_id |-> "device",
                                 errors |-> [base |-> "invalid_device"]],
                          FormNames(self._discovered_devices, self._manager), FALSE, 0)
             ELSE LET named == get_device_readable_name(discovery_info, self._manager) IN
                  IF discovery_info.address \in current_ids
                  THEN Handled(self, [type |-> "abort", reason |-> "already_configured"],
                               named, FALSE, 0)
                  ELSE LET calls == Append(named,
                                        get_device_credentials(discovery_info.address,
                                            [force_update |-> self._get_device_info_error,
                                             save_data |-> TRUE],
                                            "async_step_device"))
                           self1 == [self EXCEPT !._data =
                                        (CONF_ADDRESS :> discovery_info.address) @@ @]
                       IN  IF credentials = None
                           THEN DeviceForm([self1 EXCEPT !._get_device_info_error = TRUE],
                                           [base |-> "device_not_registered"],
                                           calls, Len(calls), discoveries, current_ids)
                           ELSE Handled(self1,
                                        [type |-> "create_entry",
                                         data |-> (CONF_ADDRESS :> discovery_info.address),
                                         options |-> self1._data],
                                        calls, FALSE, 0)
    ELSE DeviceForm(self, << >>, << >>, 0, discoveries, current_ids)

\* TuyaBLEConfigFlow.async_step_login(user_input).  replies are what
\* manager._login returns call by call, cached is what
\* manager.get_login_from_cache() leaves in self._data.
async_step_login(self, user_input, replies, cached, discoveries, current_ids) ==
    IF TruthyDict(user_input)
    THEN LET tried == _try_login(replies, user_input, << >>, << >>) IN
         IF TruthyDict(tried.data)
         THEN LET d == async_step_device([self EXCEPT !._data = tried.data @@ @],
                                         None, None, discoveries, current_ids)
              IN  Handled(d.self, d.result, d.calls, TRUE, d.failed_after)
         ELSE Handled(self, [type |-> "form", step_id |-> "login",
                             errors |-> tried.errors,
                             placeholders |-> tried.placeholders],
                      << >>, FALSE, 0)
    ELSE LET calls == IF self._discovery_info # None
                      THEN << get_device_credentials(self._discovery_info.address,
                                  [force_update |-> FALSE, save_data |-> TRUE],
                                  "async_step_login") >>
                      ELSE << >>
             self1 == IF ~TruthyDict(self._data)
                      THEN [self EXCEPT !._data = cached]
                      ELSE self
         IN  Handled(self1, [type |-> "form", step_id |-> "login",
                             errors |-> << >>, placeholders |-> << >>],
                     calls, FALSE, 0)

\* TuyaBLEConfigFlow.async_step_user(user_input)
async_step_user(self, user_input, replies, cached, discoveries, current_ids) ==
    LET self1 == IF self._manager = None
                 THEN [self EXCEPT !._manager = HASSTuyaBLEDeviceManager]
                 ELSE self
    IN  async_step_login(self1, user_input, replies, cached, discoveries, current_ids)

\* TuyaBLEConfigFlow.async_step_bluetooth(discovery_info)
async_step_bluetooth(self, discovery_info, cached, discoveries, current_ids) ==
    IF discovery_info.address \in current_ids
    THEN Handled(self, [type |-> "abort", reason |-> "already_configured"],
                 << >>, FALSE, 0)
    ELSE LET self1 == [self EXCEPT !._discovery_info = discovery_info,
                                   !._manager = IF @ = None
                                                THEN HASSTuyaBLEDeviceManager ELSE @]
             named == get_device_readable_name(discovery_info, self1._manager)
             l == async_step_login(self1, None, << >>, cached, discoveries, current_ids)
         IN  Handled(l.self, l.result, named \o l.calls, l.logged_in, l.failed_after)

(* the flow's environment *)

\* What Bluetooth sees: two Tuya BLE devices and one other device.
Seen ==
    << BluetoothServiceInfoBleak("AA:AA", {SERVICE_UUID}),
       BluetoothServiceInfoBleak("BB:BB", {SERVICE_UUID}),
       BluetoothServiceInfoBleak("CC:CC", {}) >>

\* What async_discovered_service_info yields during one step.
Discoveries == { << >>, Seen }

\* The addresses with a config entry already, during one step.
CurrentIds == { {}, {"BB:BB"} }

\* What manager.get_device_credentials returns to the flow.
Credentials == { None, [device_id |-> "dev", local_key |-> "key"] }

\* What manager.get_login_from_cache() leaves in self._data.
CachedLogins == { << >>, (CONF_USERNAME :> "cached") }

\* The login forms submitted to a flow.
FlowLoginInputs ==
    { u \in LoginInputs : CONF_USERNAME \in DOMAIN u }

\* The device forms submitted to a flow: a device seen, or an address that
\* was never seen.
FlowDeviceInputs ==
    { (CONF_ADDRESS :> a) : a \in {"AA:AA", "BB:BB", "CC:CC", "ZZ:ZZ"} }

(* the flow's history *)

\* The step the flow manager called last and what the flow found: whether
\* the address submitted was among the discovered devices, and what the
\* cloud returned for the credentials.
Called(step, user_input, credentials) ==
    [step |-> step, user_input |-> user_input, credentials |-> credentials,
     discovered |-> /\ TruthyDict(user_input)
                    /\ CONF_ADDRESS \in DOMAIN user_input
                    /\ user_input[CONF_ADDRESS]
                           \in Addresses(flow.self._discovered_devices)]

\* The flow after a step handed back h.  next_fetch is the first call of
\* manager.get_device_credentials made after the latest
\* "device_not_registered"; device_fetch is the latest call the flow made
\* for the selected device, with whether a "device_not_registered" came
\* before it.
Proceed(h, called) ==
    LET own == { i \in DOMAIN h.calls : h.calls[i].by = "async_step_device" }
        after == { i \in DOMAIN h.calls : i > h.failed_after }
    IN  [phase |-> "running", self |-> h.self, result |-> h.result,
         steps |-> flow.steps + 1,
         logged_in |-> flow.logged_in \/ h.logged_in,
         failed |-> flow.failed \/ h.failed_after > 0,
         called |-> called,
         next_fetch |->
             IF h.failed_after > 0
             THEN IF after = {} THEN None
                  ELSE h.calls[CHOOSE i \in after : \A j \in after : i <= j]
             ELSE IF flow.failed /\ flow.next_fetch = None /\ h.calls # << >>
                  THEN h.calls[1]
                  ELSE flow.next_fetch,
         device_fetch |->
             IF own = {} THEN flow.device_fetch
             ELSE [call |-> h.calls[CHOOSE i \in own : TRUE],
                   after_failure |-> flow.failed]]

\* A flow was created and no step has run.
InitFlow ==
    /\ flow = [phase |-> "running", self |-> TuyaBLEConfigFlow, result |-> None,
               steps |-> 0, logged_in |-> FALSE, failed |-> FALSE,
               called |-> None, next_fetch |-> None, device_fetch |-> None]
    /\ coordinator = << >>
    /\ hist = << >>
    /\ registered = {}
    /\ last = Constructed(1)
    /\ prev = [op |-> "other", dev |-> 1, listeners |-> 0,
               wasDisconnected |-> FALSE]
    /\ timers = << >>
    /\ now = 0
    /\ connectSeen = {}
    /\ lookup = NoLookup
    /\ login = NoLogin

\* The variables no step of a flow touches.
FlowFrame ==
    UNCHANGED << coordinator, timers, now, last, prev, hist, connectSeen,
                 registered, lookup, login >>

\* The flow manager starts a flow the user asked for.
StepUser ==
    /\ flow.phase = "running" /\ flow.result = None
    /\ \E user_input \in {None} \cup FlowLoginInputs, replies \in Replies,
          cached \in CachedLogins, discoveries \in Discoveries,
          current_ids \in CurrentIds :
          flow' = Proceed(async_step_user(flow.self, user_input, replies, cached,
                                          discoveries, current_ids),
                          Called("user", user_input, None))
    /\ FlowFrame

\* The flow manager starts a flow for a device Bluetooth discovered.
StepBluetooth ==
    /\ flow.phase = "running" /\ flow.result = None
    /\ \E i \in {1, 2}, cached \in CachedLogins, discoveries \in Discoveries,
          current_ids \in CurrentIds :
          flow' = Proceed(async_step_bluetooth(flow.self, Seen[i], cached,
                                               discoveries, current_ids),
                          Called("bluetooth", None, None))
    /\ FlowFrame

\* The user submits the login form.
StepLogin ==
    /\ flow.phase = "running" /\ flow.steps < MaxSteps
    /\ flow.result # None
    /\ flow.result.type = "form" /\ flow.result.step_id = "login"
    /\ \E user_input \in FlowLoginInputs, replies \in Replies,
          discoveries \in Discoveries, current_ids \in CurrentIds :
          flow' = Proceed(async_step_login(flow.self, user_input, replies, << >>,
                                           discoveries, current_ids),
                          Called("login", user_input, None))
    /\ FlowFrame

\* The user submits the device form.
StepDevice ==
    /\ flow.phase = "running" /\ flow.steps < MaxSteps
    /\ flow.result # None
    /\ flow.result.type = "form" /\ flow.result.step_id = "device"
    /\ \E user_input \in FlowDeviceInputs, credentials \in Credentials,
          discoveries \in Discoveries, current_ids \in CurrentIds :
          flow' = Proceed(async_step_device(flow.self, user_input, credentials,
                                            discoveries, current_ids),
                          Called("device", user_input, credentials))
    /\ FlowFrame

NextFlow ==
    \/ StepUser
    \/ StepBluetooth
    \/ StepLogin
    \/ StepDevice

SpecFlow == InitFlow /\ [][NextFlow]_vars

(* ------------------------------ claims -------------------------------- *)

\* The coordinator that ran last.
LastSelf == coordinator[last.dev]

\* C1: a debounce task that was pending when a connected or data callback
\* ran on its coordinator is cancelled by that callback and stays
\* cancelled: it never fires afterwards, so it never sets connected() to
\* false.
C1_DebounceCancelled ==
    \A h \in connectSeen : timers[h].state = "cancelled"

\* C1 witness: a task was cancelled by a connect, its time has passed, and
\* the coordinator is still connected.
C1_Witness ==
    \E h \in connectSeen :
        /\ now > timers[h].deadline
        /\ timers[h].state = "cancelled"
        /\ connected(coordinator[timers[h].owner])

\* C2 (as claimed): whenever the disconnected callback ran and neither a
\* connected nor a data callback followed, then once the delay has
\* elapsed the coordinator is disconnected and exactly one listener
\* broadcast was sent by the fire.
C2_DebounceFires ==
    \A d \in DOMAIN coordinator : \A t \in hist[d].discAt :
        now > t + SET_DISCONNECTED_DELAY =>
            /\ coordinator[d]._disconnected
            /\ hist[d].fireListeners = 1

\* C3 (as claimed): right after the connected callback returns, the
\* stored timer reference is None.
C3_ConnectClearsReference ==
    last.op = "connect" => LastSelf._unsub_disconnect = None

\* C4 (as claimed): a data callback on a disconnected coordinator leaves
\* it connected and sends exactly one listener broadcast.
C4_OneBroadcast ==
    (last.op = "update" /\ last.wasDisconnected) =>
        (connected(LastSelf) /\ last.listeners = 1)

\* C4 (amended): a data callback on a disconnected coordinator leaves it
\* connected and sends exactly two listener broadcasts, one for the state
\* change and one from async_set_updated_data, whatever the batch holds;
\* button events are sent besides and are not among them.
C4_DataImpliesLiveness ==
    (last.op = "update" /\ last.wasDisconnected) =>
        (connected(LastSelf) /\ last.listeners = 2)

\* C4 witness: a data callback on a disconnected coordinator that also
\* fired button events.
C4_Witness ==
    /\ last.op = "update"
    /\ last.wasDisconnected
    /\ connected(LastSelf)
    /\ Len(last.events) = 2

\* What the connected callback broadcasts from the state the last
\* callback found.
ConnectBroadcasts == IF last.wasDisconnected THEN 1 ELSE 0

\* C5 (as claimed): a data callback sends no listener broadcast beyond
\* those of the connected callback it embeds; none if the coordinator was
\* connected already.
C5_NoFurtherBroadcast ==
    last.op = "update" => last.listeners = ConnectBroadcasts

\* C5 (amended): a data callback sends exactly one listener broadcast
\* (async_set_updated_data) beyond those of the connected callback it
\* embeds, so exactly one if the coordinator was connected already; that
\* number does not grow with the button events, which go to the bus only.
C5_OneFurtherBroadcast ==
    last.op = "update" => last.listeners = ConnectBroadcasts + 1

\* C5 witness: a data callback on a connected coordinator that fired two
\* button events and one listener broadcast.
C5_Witness ==
    /\ last.op = "update"
    /\ ~last.wasDisconnected
    /\ Len(last.events) = 2
    /\ last.listeners = 1

\* C6, after the call: a connected callback on a connected coordinator
\* sends no broadcast, and two connected callbacks in a row starting
\* disconnected send one broadcast in total.
C6_Broadcasts ==
    /\ (last.op = "connect" /\ ~last.wasDisconnected) =>
           (last.listeners = 0 /\ connected(LastSelf))
    /\ (last.op = "connect" /\ prev.op = "connect" /\ prev.dev = last.dev
           /\ prev.wasDisconnected) =>
           prev.listeners + last.listeners = 1

\* C6, the step: a connected callback on a connected coordinator leaves
\* the coordinator's fields as they are, and one that follows another
\* connected callback leaves the scheduled tasks as they are too.
C6_Step ==
    \A d \in DOMAIN coordinator :
        /\ (connected(coordinator[d]) /\ HandleConnected(d)) =>
               UNCHANGED coordinator
        /\ (last.op = "connect" /\ last.dev = d /\ HandleConnected(d)) =>
               UNCHANGED << coordinator, timers >>

\* C6: connect idempotence: the connected callback on an already
\* connected coordinator changes no field of the coordinator and sends no
\* listener broadcast, so two in a row from the disconnected state send
\* exactly one.
C6_ConnectIdempotent == []C6_Broadcasts /\ [][C6_Step]_vars

\* C6 witness: two connected callbacks in a row, the first of which found
\* the coordinator disconnected.
C6_Witness ==
    /\ last.op = "connect"
    /\ prev.op = "connect"
    /\ prev.wasDisconnected
    /\ prev.listeners = 1
    /\ last.listeners = 0

\* C7: each coordinator has at most one debounce task that is scheduled
\* and has neither fired nor been cancelled.
C7_AtMostOnePending ==
    \A d \in DOMAIN coordinator : Cardinality(Pending(timers, d)) <= 1

\* C7 witness: the disconnected callback ran while a task was pending,
\* and one task is pending.
C7_Witness ==
    /\ last.op = "disconnect"
    /\ hist[last.dev].stacked # {}
    /\ Cardinality(Pending(timers, last.dev)) = 1

\* C8, the step: the disconnected callback on a coordinator with a
\* pending task changes neither the coordinator nor any task.
C8_Step ==
    \A d \in DOMAIN coordinator :
        (Pending(timers, d) # {} /\ HandleDisconnected(d)) =>
            UNCHANGED << coordinator, timers >>

\* C8, afterwards: once the time the pending task was first scheduled
\* for has passed with no connect, that task has fired and its fire sent
\* the one broadcast.
C8_OneFire ==
    \A d \in DOMAIN coordinator : \A s \in hist[d].stacked :
        now > s.deadline =>
            /\ timers[s.handle].state = "fired"
            /\ timers[s.handle].deadline = s.deadline
            /\ hist[d].fireListeners = 1

\* C8: no timer stacking: the disconnected callback on a coordinator with
\* a pending task leaves the connection state, the stored handle and the
\* task's fire time unchanged, so two disconnected callbacks with no
\* connect between them lead to exactly one fire broadcast, at the time
\* first scheduled.
C8_NoTimerStacking == []C8_OneFire /\ [][C8_Step]_vars

\* C8 witness: a disconnected callback ran on a pending task, the task's
\* time has passed and it has fired once.
C8_Witness ==
    \E d \in DOMAIN coordinator : \E s \in hist[d].stacked :
        /\ now > s.deadline
        /\ timers[s.handle].state = "fired"
        /\ hist[d].fireListeners = 1

\* C9: a coordinator is disconnected exactly when no connected or data
\* callback ran since the last fire (or since construction); the flag is
\* cleared at once by such a callback and set only by a fire.
C9_ConnectionState ==
    /\ \A d \in DOMAIN coordinator :
           coordinator[d]._disconnected = ~hist[d].connectSinceFire
    /\ last.op \in {"connect", "update"} => connected(LastSelf)
    /\ (~last.wasDisconnected /\ LastSelf._disconnected) => last.op = "fire"

\* C9 witness: a fire that took a connected coordinator to disconnected.
C9_Witness ==
    /\ last.op = "fire"
    /\ ~last.wasDisconnected
    /\ LastSelf._disconnected
    /\ ~hist[last.dev].connectSinceFire

\* The device's product has fingerbot info with manual control enabled.
ManualControl(device) ==
    LET info == get_device_product_info(device) IN
    Truthy(info) /\ Truthy(info.fingerbot) /\ info.fingerbot.manual_control # 0

\* The positions of a batch whose record is the product's switch data
\* point, changed by the device.
Presses(device, updates) ==
    { i \in DOMAIN updates :
        /\ updates[i].id = get_device_product_info(device).fingerbot.switch
        /\ updates[i].changed_by_device }

\* C10: with fingerbot info and manual control enabled, a data callback
\* fires one button event per record of the batch that is the switch data
\* point changed by the device, with no de-duplication, and each event
\* carries the device's address and device id.
C10_ButtonEvents ==
    (last.op = "update" /\ ManualControl(Devices[last.dev])) =>
        /\ Len(last.events) = Cardinality(Presses(Devices[last.dev], last.updates))
        /\ \A i \in DOMAIN last.events :
               last.events[i] = [address |-> Devices[last.dev].address,
                                 device_id |-> Devices[last.dev].device_id]

\* C10 witness: a batch of two presses of the switch fired two events.
C10_Witness ==
    /\ last.op = "update"
    /\ ManualControl(Devices[last.dev])
    /\ Len(last.updates) = 2
    /\ Len(last.events) = 2

\* The device has no product descriptor, or one without fingerbot info,
\* or one whose fingerbot info has manual control disabled.
NoManualControl(device) ==
    LET info == get_device_product_info(device) IN
    \/ info = None
    \/ info.fingerbot = None
    \/ info.fingerbot.manual_control = 0

\* C11: for a device without product descriptor, without fingerbot info
\* or with manual control disabled, a data callback fires no button
\* event, whatever the ids and changed_by_device flags of the batch.
C11_NoButtonEvents ==
    (last.op = "update" /\ NoManualControl(Devices[last.dev])) =>
        last.events = << >>

\* C11 witness: a Fingerbot with manual control disabled received a batch
\* with its switch data point changed by the device.
C11_Witness ==
    /\ last.op = "update"
    /\ Truthy(get_device_product_info(Devices[last.dev]))
    /\ Truthy(get_device_product_info(Devices[last.dev]).fingerbot)
    /\ NoManualControl(Devices[last.dev])
    /\ \E i \in DOMAIN last.updates :
           /\ last.updates[i].id =
                  get_device_product_info(Devices[last.dev]).fingerbot.switch
           /\ last.updates[i].changed_by_device
    /\ last.events = << >>

\* C12, at construction: until its first callback runs, however long
\* that takes, a new coordinator is disconnected, stores no timer
\* reference and has no task scheduled.
C12_Fresh ==
    last.op = "init" =>
        \A d \in DOMAIN coordinator :
            /\ ~connected(coordinator[d])
            /\ coordinator[d]._unsub_disconnect = None
            /\ Pending(timers, d) = {}

\* C12, the step: connected() turns true only in a step that runs the
\* connected or the data callback of that coordinator.
C12_Step ==
    \A d \in DOMAIN coordinator :
        (~connected(coordinator[d]) /\ connected(coordinator'[d])) =>
            \/ HandleConnected(d)
            \/ \E updates \in Batches : HandleDataUpdate(d, updates)

\* C12: initial state: a freshly constructed coordinator has
\* connected() == false and no pending timer, and connected() stays false
\* for as long as neither the connected nor the data callback runs.
C12_InitialState == []C12_Fresh /\ [][C12_Step]_vars

\* C12 witness: no callback has run since construction, more than the
\* debounce delay has passed, and the coordinator is still disconnected.
C12_Witness ==
    /\ last.op = "init"
    /\ now > SET_DISCONNECTED_DELAY
    /\ ~connected(LastSelf)
    /\ LastSelf._unsub_disconnect = None

\* The coordinators whose device has been removed.
Removed == DOMAIN coordinator \ registered

\* C13 (as claimed): once a device has been removed, its coordinator has
\* no task left scheduled, and no fire runs for it.
C13_TeardownReleasesTimer ==
    /\ \A d \in Removed : Pending(timers, d) = {}
    /\ last.op = "fire" => last.dev \in registered

\* The states a scheduled task can be in.
TaskStates == {"pending", "cancelled", "fired"}

\* A callback returned normally, and left a coordinator and tasks that
\* are what they are declared to be.
Completes(e) ==
    /\ "raised" \notin DOMAIN e
    /\ e.self._disconnected \in BOOLEAN
    /\ \/ e.self._unsub_disconnect = None
       \/ e.self._unsub_disconnect.handle \in DOMAIN e.timers
    /\ \A h \in DOMAIN e.timers :
           /\ e.timers[h].state \in TaskStates
           /\ e.timers[h].owner \in DOMAIN coordinator
           /\ e.timers[h].deadline \in Nat

\* C14: totality: in every reachable state each callback of a set-up
\* coordinator can run, whatever batch it is given and also when the
\* stored task has been cancelled or has fired, and returns normally with
\* a well-formed coordinator; a due task can always fire.
C14_Total ==
    /\ \A d \in registered :
           /\ Completes(_async_handle_connect(coordinator[d], timers))
           /\ Completes(_async_handle_disconnect(coordinator[d], timers, d, now))
           /\ Completes([self |-> _set_disconnected(coordinator[d]).self,
                         timers |-> timers])
           /\ \A updates \in Batches :
                  /\ Completes(_async_handle_update(coordinator[d], timers,
                                                    Devices[d], updates))
                  /\ ENABLED HandleDataUpdate(d, updates)
           /\ ENABLED HandleConnected(d)
           /\ Len(timers) < MaxTimers => ENABLED HandleDisconnected(d)
    /\ \A h \in DOMAIN timers :
           (timers[h].state = "pending" /\ timers[h].deadline <= now) =>
               ENABLED DebounceFire(h)

\* C14 witness: the connected callback ran twice in a row on a
\* coordinator whose stored task was cancelled already, after another
\* task had fired.
C14_Witness ==
    /\ last.op = "connect"
    /\ prev.op = "connect"
    /\ LastSelf._unsub_disconnect # None
    /\ timers[LastSelf._unsub_disconnect.handle].state = "cancelled"
    /\ \E h \in DOMAIN timers : timers[h].state = "fired"

\* C15 (as claimed): right after the disconnected callback returns, one
\* task is scheduled for the coordinator and its handle is the stored one.
C15_OneLiveTask ==
    last.op = "disconnect" =>
        \E h \in DOMAIN timers :
            /\ Pending(timers, last.dev) = {h}
            /\ LastSelf._unsub_disconnect = [handle |-> h]

\* C16 (as claimed): a fire finds the coordinator connected.
C16_FireFromConnected ==
    last.op = "fire" => ~last.wasDisconnected

\* C16 (amended): a fire sends its one listener broadcast and leaves the
\* coordinator disconnected whether it found it connected or disconnected
\* already.
C16_FireTellsAlways ==
    last.op = "fire" => (last.listeners = 1 /\ LastSelf._disconnected)

\* C16 witness: a fire on a coordinator that was disconnected already
\* sent a broadcast.
C16_Witness ==
    /\ last.op = "fire"
    /\ last.wasDisconnected
    /\ last.listeners = 1

C18_OnlyAfterDisconnect ==
    /\ last.op = "fire" => hist[last.dev].discAt # {}
    /\ (~last.wasDisconnected /\ ~connected(LastSelf)) =>
           (last.op = "fire" /\ hist[last.dev].discAt # {})

\* C18 witness: a fire took a connected coordinator to disconnected, the
\* delay after the disconnected callback having passed.
C18_Witness ==
    /\ last.op = "fire"
    /\ ~last.wasDisconnected
    /\ ~connected(LastSelf)
    /\ \E t \in hist[last.dev].discAt : now >= t + SET_DISCONNECTED_DELAY

\* What a step of coordinator d leaves alone and what it sends.
C19_Frame(d) ==
    /\ \A o \in DOMAIN coordinator \ {d} :
          /\ coordinator'[o]._disconnected = coordinator[o]._disconnected
          /\ coordinator'[o]._unsub_disconnect = coordinator[o]._unsub_disconnect
          /\ \A h \in DOMAIN timers :
                timers[h].owner = o => timers'[h] = timers[h]
    /\ \A i \in DOMAIN last'.events :
          /\ last'.events[i].address = Devices[d].address
          /\ last'.events[i].device_id = Devices[d].device_id

\* C19: with two coordinators for two devices, a connected, data or
\* disconnected callback or a debounce firing of one coordinator (the one
\* the step records in last) leaves the other coordinator's _disconnected
\* flag, its _unsub_disconnect handle and its scheduled tasks unchanged, and
\* the button events it fires carry the address and device id of its own
\* device only.
C19_Independent ==
    [][C19_Frame(last'.dev)]_vars

\* C19 witness: a data update of one coordinator cancelled that
\* coordinator's task and fired a button event, while the other coordinator
\* still holds the handle of its own task, which is still scheduled.
C19_Witness ==
    /\ DOMAIN coordinator = TwoDevices
    /\ last.op = "update"
    /\ last.events # << >>
    /\ \E h \in DOMAIN timers :
          timers[h].owner = last.dev /\ timers[h].state = "cancelled"
    /\ \E o \in TwoDevices \ {last.dev} :
          /\ Truthy(coordinator[o]._unsub_disconnect)
          /\ coordinator[o]._unsub_disconnect.handle \in Pending(timers, o)

\* C20: get_product_info_by_ids(category, product_id) returns None when
\* the category is not in the database; otherwise the entry registered
\* under exactly that product_id in that category; and only when the
\* category has no such entry, the category's own info (which may be None).
C20_Lookup ==
    lookup.phase = "done" =>
        LET category == lookup.category
            product_id == lookup.product_id
        IN  /\ category \notin DOMAIN devices_database
                => lookup.result = None
            /\ category \in DOMAIN devices_database
                => LET category_info == devices_database[category] IN
                   /\ product_id \in DOMAIN category_info.products
                       => lookup.result = category_info.products[product_id]
                   /\ product_id \notin DOMAIN category_info.products
                       => lookup.result = category_info.info

\* C20 witness: a call for a known category with a product id that only
\* another category registers has returned the category's info, None.
C20_Witness ==
    /\ lookup.phase = "done"
    /\ lookup.category = "co2bj"
    /\ lookup.product_id = "blliqpsj"
    /\ "blliqpsj" \in DOMAIN devices_database["szjqr"].products
    /\ lookup.result = None

\* The last callback or task changed what connected() returns.
C21_Changed ==
    last.op # "init" /\ last.wasDisconnected # LastSelf._disconnected

\* C21 (as claimed): a step that changes what connected() returns sends
\* exactly one listener broadcast, and an entity's available equals
\* connected() afterwards.
C21_ExactlyOneBroadcast ==
    C21_Changed =>
        /\ last.listeners = 1
        /\ available(TuyaBLEEntity(LastSelf)) = ~LastSelf._disconnected

\* C21 (amended): a step that changes what connected() returns always
\* tells the listeners in that step: once when it is a connected callback
\* or a fire, twice when it is a data callback (the state change and
\* async_set_updated_data); an entity's available, read afterwards, equals
\* connected(), the negation of the flag.
C21_ChangeBroadcast ==
    /\ C21_Changed =>
           /\ last.listeners >= 1
           /\ last.listeners = IF last.op = "update" THEN 2 ELSE 1
    /\ \A d \in DOMAIN coordinator :
           available(TuyaBLEEntity(coordinator[d])) = ~coordinator[d]._disconnected

\* C21 witness: a connected callback changed connected() to true, told
\* the listeners once, and the entity reads as available.
C21_Witness ==
    /\ last.op = "connect"
    /\ C21_Changed
    /\ last.listeners = 1
    /\ available(TuyaBLEEntity(LastSelf))

\* The reply to the k-th login attempt reports success.
Succeeded(k) == DictGetOr(login.replies[k], TUYA_RESPONSE_SUCCESS, FALSE)

\* The app type and auth type of the attempts, in the order claimed: Tuya
\* Smart with smart-home auth, SmartLife with smart-home auth, SmartLife
\* with custom auth.
C22_Order ==
    << << TUYA_SMART_APP, AuthType.SMART_HOME >>,
       << SMARTLIFE_APP, AuthType.SMART_HOME >>,
       << SMARTLIFE_APP, AuthType.CUSTOM >> >>

\* C22: _try_login makes at most three login attempts, in the fixed order
\* of C22_Order; an attempt is followed by another only if its reply did
\* not report success; with a known country it stops before the third
\* attempt only on a success; and after a successful attempt it returns the
\* data that attempt was made with.
C22_LoginAttempts ==
    login.phase = "done" =>
        LET calls == login.result.calls IN
        /\ Len(calls) <= 3
        /\ \A k \in DOMAIN calls :
              /\ << calls[k][CONF_APP_TYPE], calls[k][CONF_AUTH_TYPE] >> = C22_Order[k]
              /\ k < Len(calls) => ~Succeeded(k)
        /\ NextCountry(login.user_input[CONF_COUNTRY_CODE]) # None
              => (Len(calls) = 3 \/ (Len(calls) > 0 /\ Succeeded(Len(calls))))
        /\ (Len(calls) > 0 /\ Succeeded(Len(calls)))
              => login.result.data = calls[Len(calls)]

\* C22 witness: the first attempt failed, the second succeeded and the
\* third reply would have been a success too; two attempts were made and
\* the data of the second, SmartLife with smart-home auth, was returned.
C22_Witness ==
    /\ login.phase = "done"
    /\ ~Succeeded(1) /\ Succeeded(2) /\ Succeeded(3)
    /\ Len(login.result.calls) = 2
    /\ login.result.data # None
    /\ login.result.data[CONF_APP_TYPE] = SMARTLIFE_APP
    /\ login.result.data[CONF_AUTH_TYPE] = AuthType.SMART_HOME

\* The submitted country name is the name of a known country.
KnownCountry ==
    \E i \in DOMAIN TUYA_COUNTRIES :
        TUYA_COUNTRIES[i].name = login.user_input[CONF_COUNTRY_CODE]

\* C23: with a country name that matches no known country _try_login
\* returns None with errors["base"] = "invalid_country" and makes no login
\* attempt; with a known country and three failed attempts it returns None
\* with errors["base"] = "login_error"; it returns data only when an
\* attempt it made succeeded, and then the errors dict is left without an
\* entry.
C23_LoginFailures ==
    login.phase = "done" =>
        LET result == login.result IN
        /\ ~KnownCountry
              => /\ result.data = None
                 /\ result.errors = [base |-> "invalid_country"]
                 /\ result.calls = << >>
        /\ (KnownCountry /\ \A k \in 1..3 : ~Succeeded(k))
              => /\ result.data = None
                 /\ result.errors = [base |-> "login_error"]
                 /\ Len(result.calls) = 3
        /\ result.data # None
              => /\ \E k \in DOMAIN result.calls : Succeeded(k)
                 /\ DOMAIN result.errors = {}

\* C23 witness: the country name is unknown and the first reply would
\* have been a success; None was returned with "invalid_country" and no
\* attempt was made.
C23_Witness ==
    /\ login.phase = "done"
    /\ ~KnownCountry
    /\ Succeeded(1)
    /\ login.result.data = None
    /\ login.result.errors["base"] = "invalid_country"
    /\ login.result.calls = << >>

\* An entry is created only by a device step of a flow in which _try_login
\* returned data, for the address submitted, which is among the flow's
\* discovered devices and for which the flow's own fetch returned
\* credentials.
C24_Entry ==
    (flow.phase = "running" /\ flow.result # None /\ flow.result.type = "create_entry") =>
        /\ flow.logged_in
        /\ flow.called.step = "device"
        /\ flow.called.discovered
        /\ flow.called.credentials # None
        /\ flow.result.data[CONF_ADDRESS] = flow.called.user_input[CONF_ADDRESS]
        /\ flow.result.data[CONF_ADDRESS] \in Addresses(flow.self._discovered_devices)
        /\ flow.device_fetch # None
        /\ flow.device_fetch.call.address = flow.result.data[CONF_ADDRESS]

\* A device step with an address that is not among the discovered devices
\* shows the device form with "invalid_device"; one whose credential fetch
\* returned nothing shows it with "device_not_registered" and sets
\* _get_device_info_error; neither creates an entry.
C24_Errors ==
    (flow.phase = "running" /\ flow.called # None /\ flow.called.step = "device") =>
        /\ ~flow.called.discovered
              => flow.result = [type |-> "form", step_id |-> "device",
                                errors |-> [base |-> "invalid_device"]]
        /\ (flow.called.discovered /\ flow.called.credentials = None
               /\ flow.result.type # "abort")
              => /\ flow.result = [type |-> "form", step_id |-> "device",
                                   errors |-> [base |-> "device_not_registered"]]
                 /\ flow.self._get_device_info_error
                 /\ flow.failed

\* The first call of manager.get_device_credentials after a
\* "device_not_registered" passes force_update = True.
C24_NextFetchForced ==
    (flow.phase = "running" /\ flow.next_fetch # None) =>
        /\ "force_update" \in DOMAIN flow.next_fetch.kwargs
        /\ flow.next_fetch.kwargs["force_update"] = TRUE

\* The fetch a device step makes for the selected device passes
\* force_update = True exactly when a "device_not_registered" came before
\* it in the flow.
C24_RetryForced ==
    (flow.phase = "running" /\ flow.device_fetch # None) =>
        /\ flow.device_fetch.call.by = "async_step_device"
        /\ flow.device_fetch.call.kwargs["force_update"] = flow.device_fetch.after_failure

\* C24 (as claimed): an entry is created only after a successful login in
\* the same flow and credentials obtained for a discovered address; an
\* undiscovered address yields "invalid_device" and missing credentials
\* "device_not_registered", with no entry; and after a
\* "device_not_registered" the next credential fetch in the flow is made
\* with force_update = True.
C24_EntryAndNextFetch ==
    C24_Entry /\ C24_Errors /\ C24_NextFetchForced

\* C24 (amended): as claimed, except for the last part: after a
\* "device_not_registered" the next fetch the flow makes for the selected
\* device (in async_step_device) passes force_update = True, while the
\* lookups get_device_readable_name makes in between, for the names on the
\* device form and of the selected device, pass no force_update.
C24_EntryAndRetry ==
    C24_Entry /\ C24_Errors /\ C24_RetryForced

\* C24 witness: after a login and a "device_not_registered", the device
\* form was submitted again, the fetch was made with force_update = True
\* and returned credentials, and the entry was created; the first
\* credential call after the failure had passed no force_update.
C24_Witness ==
    /\ flow.phase = "running"
    /\ flow.result # None
    /\ flow.result.type = "create_entry"
    /\ flow.logged_in
    /\ flow.failed
    /\ flow.device_fetch.after_failure
    /\ flow.device_fetch.call.kwargs["force_update"] = TRUE
    /\ flow.next_fetch # None
    /\ flow.next_fetch.by = "get_device_readable_name"
    /\ flow.next_fetch.kwargs = << >>

====
